---- MODULE Spec2Model ----
(***************************************************************************)
(* Model of lib/ai-service.ts (the completion client callOpenAI and the    *)
(* two analysis stages deepAnalyzeArticles / generateSmartTopicInsights).  *)
(* SpecPage is the analysis page app/analysis/page.tsx and its handlers.    *)
(*                                                                         *)
(* Text is a sequence of lexical units (a fence of three backticks, a      *)
(* word, white space, a quote, a punctuation mark, a number), so that      *)
(* trim / startsWith / replace / JSON.parse act on text the way the        *)
(* JavaScript built-ins act on characters.  JSON values are records of one *)
(* shape, so that values of different JSON types can be compared.          *)
(***************************************************************************)
EXTENDS Integers, Sequences, FiniteSets, TLC

(***************************************************************************)
(* Lexical units of text                                                   *)
(***************************************************************************)
Unit(c, s, n) == [c |-> c, s |-> s, n |-> n]
Fence == Unit("fence", "", 0)
Ws == Unit("ws", "", 0)
Quote == Unit("quote", "", 0)
Word(s) == Unit("word", s, 0)
Num(n) == Unit("num", "", n)
Punct(c) == Unit(c, "", 0)

(***************************************************************************)
(* JSON / JavaScript values                                                *)
(***************************************************************************)
JVal(t, n, s, a, o) == [t |-> t, n |-> n, s |-> s, a |-> a, o |-> o]
JUndefined == JVal("undefined", 0, <<>>, <<>>, <<>>)
JNull == JVal("null", 0, <<>>, <<>>, <<>>)
JNum(n) == JVal("num", n, <<>>, <<>>, <<>>)
JStr(s) == JVal("str", 0, s, <<>>, <<>>)
JArr(a) == JVal("arr", 0, <<>>, a, <<>>)
JObj(o) == JVal("obj", 0, <<>>, <<>>, o)
Member(k, v) == [k |-> k, v |-> v]

\* JavaScript ToBoolean, as used by `||` and `!`.
Truthy(v) ==
  CASE v.t = "undefined" -> FALSE
    [] v.t = "null" -> FALSE
    [] v.t = "num" -> v.n # 0
    [] v.t = "str" -> v.s # <<>>
    [] OTHER -> TRUE

\* v.key on a value that is neither null nor undefined: the last member of
\* that name of an object, undefined otherwise.
Get(v, key) ==
  LET hits == {i \in 1..Len(v.o) : v.o[i].k = key}
  IN  IF v.t = "obj" /\ hits # {}
        THEN v.o[CHOOSE i \in hits : \A j \in hits : j <= i].v
        ELSE JUndefined

\* Reading a property of null or undefined throws a TypeError.
Nullish(v) == v.t \in {"undefined", "null"}

\* v?.key
OptGet(v, key) == IF Nullish(v) THEN JUndefined ELSE Get(v, key)

(***************************************************************************)
(* JSON.parse                                                              *)
(***************************************************************************)
ParseOk(v, pos) == [ok |-> TRUE, val |-> v, pos |-> pos]
ParseFail == [ok |-> FALSE, val |-> JUndefined, pos |-> 0]

RECURSIVE SkipWs(_, _)
SkipWs(t, i) == IF i <= Len(t) /\ t[i].c = "ws" THEN SkipWs(t, i + 1) ELSE i

\* Position of the first quote at or after i, 0 when there is none.
RECURSIVE NextQuote(_, _)
NextQuote(t, i) ==
  IF i > Len(t) THEN 0
  ELSE IF t[i].c = "quote" THEN i ELSE NextQuote(t, i + 1)

\* The name a string literal's content gives as an object key.
KeyName(content) ==
  IF Len(content) = 1 /\ content[1].c = "word" THEN content[1].s ELSE ""

RECURSIVE ParseValue(_, _)
RECURSIVE ParseElements(_, _, _)
RECURSIVE ParseMembers(_, _, _)

\* A string literal that opens at j and closes at e (0: never closed).
StringAt(t, j, e) ==
  IF e = 0 THEN ParseFail ELSE ParseOk(JStr(SubSeq(t, j + 1, e - 1)), e + 1)

\* After "[", white space skipped.
ArrayAt(t, k) ==
  IF k <= Len(t) /\ t[k].c = "]" THEN ParseOk(JArr(<<>>), k + 1)
  ELSE ParseElements(t, k, <<>>)

\* After "{", white space skipped.
ObjectAt(t, k) ==
  IF k <= Len(t) /\ t[k].c = "}" THEN ParseOk(JObj(<<>>), k + 1)
  ELSE ParseMembers(t, k, <<>>)

\* The value that starts at j, white space skipped.
ValueAt(t, j) ==
  IF j > Len(t) THEN ParseFail
  ELSE CASE t[j].c = "num" -> ParseOk(JNum(t[j].n), j + 1)
         [] t[j].c = "word" ->
              IF t[j].s = "null" THEN ParseOk(JNull, j + 1) ELSE ParseFail
         [] t[j].c = "quote" -> StringAt(t, j, NextQuote(t, j + 1))
         [] t[j].c = "[" -> ArrayAt(t, SkipWs(t, j + 1))
         [] t[j].c = "{" -> ObjectAt(t, SkipWs(t, j + 1))
         [] OTHER -> ParseFail

ParseValue(t, i) == ValueAt(t, SkipWs(t, i))

\* After the elements acc, at k: "," and more elements, or "]".
ElementEnd(t, acc, k) ==
  IF k > Len(t) THEN ParseFail
  ELSE IF t[k].c = "," THEN ParseElements(t, k + 1, acc)
  ELSE IF t[k].c = "]" THEN ParseOk(JArr(acc), k + 1)
  ELSE ParseFail

AfterElement(t, acc, r) ==
  IF ~r.ok THEN ParseFail ELSE ElementEnd(t, Append(acc, r.val), SkipWs(t, r.pos))

\* value ("," value)* "]", the elements before position i being acc.
ParseElements(t, i, acc) == AfterElement(t, acc, ParseValue(t, i))

\* After the members acc, at k: "," and more members, or "}".
MemberEnd(t, acc, k) ==
  IF k > Len(t) THEN ParseFail
  ELSE IF t[k].c = "," THEN ParseMembers(t, k + 1, acc)
  ELSE IF t[k].c = "}" THEN ParseOk(JObj(acc), k + 1)
  ELSE ParseFail

AfterMember(t, acc, key, r) ==
  IF ~r.ok THEN ParseFail
  ELSE MemberEnd(t, Append(acc, Member(key, r.val)), SkipWs(t, r.pos))

\* After the key of a member, at c: ":" and the value.
MemberValue(t, acc, key, c) ==
  IF c > Len(t) THEN ParseFail
  ELSE IF t[c].c # ":" THEN ParseFail
  ELSE AfterMember(t, acc, key, ParseValue(t, c + 1))

\* The key of a member, a string literal that opens at j and closes at e.
MemberKey(t, acc, j, e) ==
  IF e = 0 THEN ParseFail
  ELSE MemberValue(t, acc, KeyName(SubSeq(t, j + 1, e - 1)), SkipWs(t, e + 1))

MemberAt(t, acc, j) ==
  IF j > Len(t) THEN ParseFail
  ELSE IF t[j].c # "quote" THEN ParseFail
  ELSE MemberKey(t, acc, j, NextQuote(t, j + 1))

\* string ":" value ("," string ":" value)* "}", the members before i being acc.
ParseMembers(t, i, acc) == MemberAt(t, acc, SkipWs(t, i))

\* Nothing but white space may follow the value.
WholeText(text, r) ==
  IF r.ok /\ SkipWs(text, r.pos) > Len(text) THEN r ELSE ParseFail

\* JSON.parse(text): one value, white space allowed around it, nothing else;
\* ok = FALSE stands for the SyntaxError it throws.
JSONparse(text) == WholeText(text, ParseValue(text, 1))

(***************************************************************************)
(* String.prototype.trim / startsWith / replace                            *)
(***************************************************************************)
RECURSIVE TrimStart(_)
TrimStart(t) == IF t # <<>> /\ Head(t).c = "ws" THEN TrimStart(Tail(t)) ELSE t

RECURSIVE TrimEnd(_)
TrimEnd(t) ==
  IF t # <<>> /\ t[Len(t)].c = "ws" THEN TrimEnd(SubSeq(t, 1, Len(t) - 1)) ELSE t

Trim(t) == TrimEnd(TrimStart(t))

StartsWith(t, pat) == Len(t) >= Len(pat) /\ SubSeq(t, 1, Len(pat)) = pat

\* t.replace(pat, ''): a string pattern replaces its first occurrence only.
ReplaceFirst(t, pat) ==
  LET hits == {i \in 1..(Len(t) - Len(pat) + 1) : SubSeq(t, i, i + Len(pat) - 1) = pat}
      at == CHOOSE i \in hits : \A j \in hits : i <= j
  IN  IF hits = {} THEN t
      ELSE SubSeq(t, 1, at - 1) \o SubSeq(t, at + Len(pat), Len(t))

FenceJson == <<Fence, Word("json")>>

\* ai-service.ts:119-122 and 251-254
cleanResponse(text) ==
  LET trimmed == Trim(text)
  IN  IF StartsWith(trimmed, FenceJson)
        THEN Trim(ReplaceFirst(ReplaceFirst(trimmed, FenceJson), <<Fence>>))
        ELSE trimmed

(***************************************************************************)
(* Errors and the outcome of a call                                        *)
(***************************************************************************)
Err(name, message) == [name |-> name, message |-> message]
NoError == Err("", <<>>)
\* 'OPENAI_API_KEY 未配置'
ConfigurationError == Err("Error", <<Word("OPENAI_API_KEY not configured")>>)
\* `OpenAI API错误: ${detail}`
UpstreamError(detail) == Err("Error", <<Word("OpenAI API error: ")>> \o detail)
\* '深度文章分析失败'
DeepAnalysisFailed == Err("Error", <<Word("deep article analysis failed")>>)
\* '智能选题洞察生成失败'
InsightsFailed == Err("Error", <<Word("smart topic insight generation failed")>>)
\* what the runtime throws
TypeError == Err("TypeError", <<>>)
SyntaxError == Err("SyntaxError", <<>>)
FetchFailed == Err("TypeError", <<Word("fetch failed")>>)

Pending == [status |-> "pending", value |-> <<>>, error |-> NoError]
Returned(v) == [status |-> "returned", value |-> v, error |-> NoError]
Thrown(e) == [status |-> "thrown", value |-> <<>>, error |-> e]

(***************************************************************************)
(* Array.prototype.sort with a comparator (stable since ES2019)            *)
(***************************************************************************)
\* ToNumber of a value, on the values a parsed document can hold.
NaN == [nan |-> TRUE, n |-> 0]
Number(v) ==
  CASE v.t = "num" -> [nan |-> FALSE, n |-> v.n]
    [] v.t = "null" -> [nan |-> FALSE, n |-> 0]
    [] v.t = "str" /\ v.s = <<>> -> [nan |-> FALSE, n |-> 0]
    [] v.t = "str" /\ Len(v.s) = 1 /\ v.s[1].c = "num" -> [nan |-> FALSE, n |-> v.s[1].n]
    [] OTHER -> NaN

\* ai-service.ts:277-279: (a, b) => b.confidence - a.confidence; a comparator
\* result of NaN counts as +0.
compareConfidence(a, b) ==
  LET x == Number(Get(a, "confidence"))
      y == Number(Get(b, "confidence"))
  IN  IF x.nan \/ y.nan THEN 0 ELSE y.n - x.n

\* A variant of the insertion that is not stable: x goes before the first
\* element that does not compare before it.
RECURSIVE InsertBeforeEqual(_, _)
InsertBeforeEqual(sorted, x) ==
  IF sorted = <<>> THEN <<x>>
  ELSE IF compareConfidence(Head(sorted), x) >= 0 THEN <<x>> \o sorted
  ELSE <<Head(sorted)>> \o InsertBeforeEqual(Tail(sorted), x)

\* x goes before the first element that the comparator puts after it, so
\* elements that compare equal keep the order in which they were inserted.
RECURSIVE InsertStable(_, _)
InsertStable(sorted, x) ==
  IF sorted = <<>> THEN <<x>>
  ELSE IF compareConfidence(Head(sorted), x) > 0 THEN <<x>> \o sorted
  ELSE <<Head(sorted)>> \o InsertStable(Tail(sorted), x)

RECURSIVE SortFrom(_, _)
SortFrom(sorted, rest) ==
  IF rest = <<>> THEN sorted
  ELSE SortFrom(InsertStable(sorted, Head(rest)), Tail(rest))

\* ai-service.ts:277: insights.sort(...)
sortByConfidence(insights) == SortFrom(<<>>, insights)

(***************************************************************************)
(* The two stages after the completion client has answered                 *)
(***************************************************************************)
\* ai-service.ts:262 and 264
MaxInsights == 10

Warning(msg, index) == [msg |-> msg, index |-> index]
\* `文章${index + 1}缺少关键字段: targetAudience/scenario/painPoint`
MissingTargeting(index) == Warning("article lacks targetAudience/scenario/painPoint", index)
\* 'AI未能生成任何洞察'
NoInsights == Warning("AI produced no insight", 0)
\* `洞察${index + 1}缺少必需的关键词字段`
MissingKeywords(index) == Warning("insight lacks the keyword fields", index)

\* Index of the first null element, Len(a) + 1 when there is none: forEach
\* stops there with a TypeError, the callback reading a property of null.
FirstNullish(a) ==
  LET bad == {i \in 1..Len(a) : Nullish(a[i])}
  IN  IF bad = {} THEN Len(a) + 1 ELSE CHOOSE i \in bad : \A j \in bad : i <= j

Try(threw, value, warned) == [threw |-> threw, value |-> value, warned |-> warned]

\* ai-service.ts:129
lacksTargeting(summary) ==
  \/ ~Truthy(Get(summary, "targetAudience"))
  \/ ~Truthy(Get(summary, "scenario"))
  \/ ~Truthy(Get(summary, "painPoint"))

\* ai-service.ts:128-132
validateSummaries(summaries) ==
  {MissingTargeting(i) : i \in {j \in 1..(FirstNullish(summaries) - 1) : lacksTargeting(summaries[j])}}

\* A variant whose validation drops the records it warns about.
deepAnalyzeComplete(got) ==
  LET isComplete(summary) == ~lacksTargeting(summary)
  IN  IF ~Truthy(got) THEN Try(FALSE, <<>>, {})
      ELSE IF got.t # "arr" THEN Try(TRUE, <<>>, {})
      ELSE IF FirstNullish(got.a) <= Len(got.a) THEN Try(TRUE, <<>>, validateSummaries(got.a))
      ELSE Try(FALSE, SelectSeq(got.a, isComplete), validateSummaries(got.a))

\* ai-service.ts:125-134: parsed.summaries || [], the validation, the return;
\* forEach of a value that is no array throws a TypeError.
deepAnalyzeSummaries(got) ==
  IF ~Truthy(got) THEN Try(FALSE, <<>>, {})
  ELSE IF got.t # "arr" THEN Try(TRUE, <<>>, {})
  ELSE IF FirstNullish(got.a) <= Len(got.a) THEN Try(TRUE, <<>>, validateSummaries(got.a))
  ELSE Try(FALSE, got.a, validateSummaries(got.a))

\* ai-service.ts:124-125: the result p of JSON.parse, and parsed.summaries
deepAnalyzeParsed(p) ==
  IF ~p.ok THEN Try(TRUE, <<>>, {})
  ELSE IF Nullish(p.val) THEN Try(TRUE, <<>>, {})
  ELSE deepAnalyzeSummaries(Get(p.val, "summaries"))

\* ai-service.ts:117-134, the try block of deepAnalyzeArticles
deepAnalyzeTry(response) ==
  IF response.t # "str" THEN Try(TRUE, <<>>, {})
  ELSE deepAnalyzeParsed(JSONparse(cleanResponse(response.s)))

\* A variant without the cap.
keepAll(insights) == insights

\* ai-service.ts:259-267
capInsights(insights) ==
  IF Len(insights) > MaxInsights THEN SubSeq(insights, 1, MaxInsights) ELSE insights

\* ai-service.ts:271
lacksKeywords(insight) ==
  LET keywords == Get(insight, "keywords")
  IN  \/ ~Truthy(OptGet(keywords, "scene"))
      \/ ~Truthy(OptGet(keywords, "audience"))
      \/ ~Truthy(OptGet(keywords, "need"))

\* ai-service.ts:270-274
validateInsights(insights) ==
  {MissingKeywords(i) : i \in {j \in 1..(FirstNullish(insights) - 1) : lacksKeywords(insights[j])}}

\* ai-service.ts:269-279: the validation and the sort of the capped insights;
\* warned is what was written before.
rankInsights(insights, warned) ==
  IF FirstNullish(insights) <= Len(insights)
    THEN Try(TRUE, <<>>, warned \cup validateInsights(insights))
    ELSE Try(FALSE, sortByConfidence(insights), warned \cup validateInsights(insights))

\* ai-service.ts:257-279: parsed.insights || [], the cap, the validation, the
\* sort; forEach of a value that is no array throws a TypeError.
generateInsightsEmitted(got) ==
  IF ~Truthy(got) THEN Try(FALSE, <<>>, {NoInsights})
  ELSE IF got.t # "arr" THEN Try(TRUE, <<>>, {})
  ELSE rankInsights(capInsights(got.a), IF got.a = <<>> THEN {NoInsights} ELSE {})

\* ai-service.ts:256-257: the result p of JSON.parse, and parsed.insights
generateInsightsParsed(p) ==
  IF ~p.ok THEN Try(TRUE, <<>>, {})
  ELSE IF Nullish(p.val) THEN Try(TRUE, <<>>, {})
  ELSE generateInsightsEmitted(Get(p.val, "insights"))

\* ai-service.ts:249-279, the try block of generateSmartTopicInsights
generateInsightsTry(response) ==
  IF response.t # "str" THEN Try(TRUE, <<>>, {})
  ELSE generateInsightsParsed(JSONparse(cleanResponse(response.s)))

(***************************************************************************)
(* JSON text of a value: JSON.stringify, and the documents the provider    *)
(* writes                                                                  *)
(***************************************************************************)
RECURSIVE Render(_)
RECURSIVE RenderElements(_)
RECURSIVE RenderMembers(_)

Render(v) ==
  CASE v.t = "num" -> <<Num(v.n)>>
    [] v.t = "str" -> <<Quote>> \o v.s \o <<Quote>>
    [] v.t = "arr" -> <<Punct("[")>> \o RenderElements(v.a) \o <<Punct("]")>>
    [] v.t = "obj" -> <<Punct("{")>> \o RenderMembers(v.o) \o <<Punct("}")>>
    [] OTHER -> <<Word("null")>>

RenderElements(a) ==
  IF a = <<>> THEN <<>>
  ELSE IF Len(a) = 1 THEN Render(a[1])
  ELSE Render(a[1]) \o <<Punct(",")>> \o RenderElements(Tail(a))

RenderMembers(o) ==
  IF o = <<>> THEN <<>>
  ELSE LET m == <<Quote, Word(o[1].k), Quote, Punct(":")>> \o Render(o[1].v)
       IN  IF Len(o) = 1 THEN m ELSE m \o <<Punct(",")>> \o RenderMembers(Tail(o))

(***************************************************************************)
(* The completion client                                                   *)
(***************************************************************************)
\* An HTTP answer to the request of callOpenAI: fetch rejects (rejected), or
\* resolves with a status (ok, statusText) and a body that response.json()
\* parses to data (parses) or rejects.
Envelope(rejected, ok, statusText, parses, data) ==
  [rejected |-> rejected, ok |-> ok, statusText |-> statusText,
   parses |-> parses, data |-> data]

\* What callOpenAI comes to for the stage that awaits it: nothing yet, the
\* content it returned, or the error it threw.
Answer(status, content, error) == [status |-> status, content |-> content, error |-> error]
NoAnswer == Answer("none", JUndefined, NoError)
Throws(error) == Answer("thrown", JUndefined, error)

\* A variant that sends without looking at the credential.
sendUnchecked(key) == [sent |-> 1, answer |-> NoAnswer]

\* ai-service.ts:20-36: the credential check, then the one fetch.
callOpenAISend(key) ==
  IF key = "" THEN [sent |-> 0, answer |-> Throws(ConfigurationError)]
  ELSE [sent |-> 1, answer |-> NoAnswer]

\* A variant that sends a failed request once more.
resendOnFailure(answer) == IF answer.status = "thrown" THEN 1 ELSE 0

\* ai-service.ts:38-41: a request that failed is thrown to the caller; it is
\* not sent again.
resend(answer) == 0

\* A variant without the .catch fallback.
errorBodyUncaught(env) == env.data

\* ai-service.ts:39: response.json().catch(() => ({ error: { message: 'Unknown error' } }))
errorBody(env) ==
  IF env.parses THEN env.data
  ELSE JObj(<<Member("error", JObj(<<Member("message", JStr(<<Word("Unknown error")>>))>>))>>)

\* ai-service.ts:40: error.error?.message || response.statusText
errorDetail(env) ==
  LET message == OptGet(Get(errorBody(env), "error"), "message")
  IN  IF ~Truthy(message) THEN env.statusText
      ELSE IF message.t = "str" THEN message.s ELSE Render(message)

\* choices[0] of ai-service.ts:44
FirstOf(choices) ==
  IF choices.t = "arr" /\ choices.a # <<>> THEN choices.a[1] ELSE JUndefined

\* ai-service.ts:44: choices[0]?.message?.content || ''
contentOf(choices) ==
  IF Truthy(OptGet(OptGet(FirstOf(choices), "message"), "content"))
    THEN OptGet(OptGet(FirstOf(choices), "message"), "content")
    ELSE JStr(<<>>)

\* ai-service.ts:38-44: what callOpenAI does once fetch has settled.
callOpenAISettle(env) ==
  IF env.rejected THEN Throws(FetchFailed)
  ELSE IF ~env.ok THEN
    IF Nullish(errorBody(env)) THEN Throws(TypeError)
    ELSE Throws(UpstreamError(errorDetail(env)))
  ELSE IF ~env.parses THEN Throws(SyntaxError)
  ELSE IF Nullish(env.data) THEN Throws(TypeError)
  ELSE IF Nullish(Get(env.data, "choices")) THEN Throws(TypeError)
  ELSE Answer("returned", contentOf(Get(env.data, "choices")), NoError)

\* What a stage call has come to: its outcome, what it wrote with
\* console.warn and what it wrote with console.error.
Stage(outcome, warned, logged) == [outcome |-> outcome, warned |-> warned, logged |-> logged]

\* A variant whose catch block swallows the error.
catchAndReturn(response, try, error) == Stage(Returned(try.value), try.warned, <<>>)

\* ai-service.ts:134-138: the return of the try block, or the catch block
\* that logs the raw response and throws the stage's own error.
Catch(response, try, error) ==
  IF try.threw THEN Stage(Thrown(error), try.warned, <<response>>)
  ELSE Stage(Returned(try.value), try.warned, <<>>)

\* A variant that awaits callOpenAI inside the try block.
deepAnalyzeAwaitInTry(answer) ==
  Catch(answer.content, deepAnalyzeTry(answer.content), DeepAnalysisFailed)

\* ai-service.ts:111-138: deepAnalyzeArticles from the answer of callOpenAI on;
\* the await stands outside the try block.
deepAnalyzeFinish(answer) ==
  IF answer.status = "thrown" THEN Stage(Thrown(answer.error), {}, <<>>)
  ELSE Catch(answer.content, deepAnalyzeTry(answer.content), DeepAnalysisFailed)

\* ai-service.ts:244-283: generateSmartTopicInsights from the answer on.
generateInsightsFinish(answer) ==
  IF answer.status = "thrown" THEN Stage(Thrown(answer.error), {}, <<>>)
  ELSE Catch(answer.content, generateInsightsTry(answer.content), InsightsFailed)

\* A variant of the guard that looks for an absent argument only.
isAbsent(arg) == ~arg.present

\* ai-service.ts:60 and 154: !x || x.length === 0
isEmpty(arg) == ~arg.present \/ Len(arg.items) = 0

(***************************************************************************)
(* The article data of the prompt of phase 1                               *)
(***************************************************************************)
\* The text of an article is a sequence of runs: n times the character s.
Run(s, n) == Unit("run", s, n)

\* ai-service.ts:69: text.substring(0, k), the first k characters of text
RECURSIVE substring(_, _)
substring(text, k) ==
  IF text = <<>> \/ k <= 0 THEN <<>>
  ELSE IF Head(text).n <= k THEN <<Head(text)>> \o substring(Tail(text), k - Head(text).n)
  ELSE <<Run(Head(text).s, k)>>

\* A variant that keeps the whole content.
wholeContent(article) ==
  JStr(IF Truthy(Get(article, "content")) THEN Get(article, "content").s ELSE <<>>)

\* ai-service.ts:69: (a.content || '').substring(0, 3000)
MaxContent == 3000
embeddedContent(article) ==
  JStr(substring(IF Truthy(Get(article, "content")) THEN Get(article, "content").s ELSE <<>>,
                 MaxContent))

\* ai-service.ts:72: a.reads > 0 ? ((a.likes / a.reads) * 100).toFixed(1) : '0',
\* the percentage rounded to one decimal.
engagement(likes, reads) ==
  IF reads > 0
    THEN JStr(<<Num(((likes * 2000 + reads) \div (2 * reads)) \div 10), Punct("."),
                Num(((likes * 2000 + reads) \div (2 * reads)) % 10)>>)
    ELSE JStr(<<Num(0)>>)

\* ai-service.ts:66-73: the record of the article at position i, counted from 0
embeddedArticle(article, i) ==
  JObj(<<Member("index", JNum(i + 1)), Member("title", Get(article, "title")),
         Member("content", embeddedContent(article)),
         Member("likes", Get(article, "likes")), Member("reads", Get(article, "reads")),
         Member("engagement", engagement(Get(article, "likes").n, Get(article, "reads").n))>>)

\* ai-service.ts:65-74: JSON.stringify(articles.map(...))
buildArticlesJson(articles) ==
  Render(JArr([k \in 1..Len(articles) |-> embeddedArticle(articles[k], k - 1)]))

(***************************************************************************)
(* generateWordCloud                                                       *)
(***************************************************************************)
\* ai-service.ts:290: s.keywords || [], which flatMap flattens by one level
keywordsOf(summary) ==
  IF ~Truthy(Get(summary, "keywords")) THEN <<>>
  ELSE IF Get(summary, "keywords").t = "arr" THEN Get(summary, "keywords").a
  ELSE <<Get(summary, "keywords")>>

\* ai-service.ts:290: summaries.flatMap(...)
RECURSIVE allKeywords(_)
allKeywords(summaries) ==
  IF summaries = <<>> THEN <<>>
  ELSE keywordsOf(Head(summaries)) \o allKeywords(Tail(summaries))

\* The property key that wordCount[word] uses: the string itself, the
\* numeral of a number.
keyOf(word) == IF word.t = "str" THEN word.s ELSE Render(word)

\* wordCount is an ordinary object: a key it does not own is looked up in
\* Object.prototype, whose methods are functions.
ObjectPrototype ==
  {<<Word(m)>> : m \in {"constructor", "toString", "toLocaleString", "valueOf",
                        "hasOwnProperty", "isPrototypeOf", "propertyIsEnumerable"}}
NativeFunction == JVal("function", 0, <<Word("function () { [native code] }")>>, <<>>, <<>>)

Count(word, count) == [word |-> word, count |-> count]

\* wordCount[word], read
countOf(wordCount, key) ==
  LET own == {i \in 1..Len(wordCount) : wordCount[i].word = key}
  IN  IF own # {} THEN wordCount[CHOOSE i \in own : TRUE].count
      ELSE IF key \in ObjectPrototype THEN NativeFunction
      ELSE JUndefined

\* ai-service.ts:295: (wordCount[word] || 0) + 1; + adds numbers and appends
\* the numeral to anything that is not a number.
plusOne(count) ==
  IF ~Truthy(count) THEN JNum(1)
  ELSE IF count.t = "num" THEN JNum(count.n + 1)
  ELSE JStr(count.s \o <<Num(1)>>)

\* wordCount[word] = count: an own key keeps its place, a new one comes last.
setCount(wordCount, key, count) ==
  IF \E i \in 1..Len(wordCount) : wordCount[i].word = key
    THEN [i \in 1..Len(wordCount) |->
            IF wordCount[i].word = key THEN Count(key, count) ELSE wordCount[i]]
    ELSE Append(wordCount, Count(key, count))

\* ai-service.ts:293-296
RECURSIVE countWords(_, _)
countWords(wordCount, words) ==
  IF words = <<>> THEN wordCount
  ELSE countWords(setCount(wordCount, keyOf(Head(words)),
                           plusOne(countOf(wordCount, keyOf(Head(words))))),
                  Tail(words))

\* A key that is the numeral of an array index.
isIndexKey(key) == Len(key) = 1 /\ key[1].c = "num"

RECURSIVE ascending(_)
ascending(counts) ==
  IF counts = {} THEN <<>>
  ELSE LET least == CHOOSE c \in counts : \A d \in counts : c.word[1].n <= d.word[1].n
       IN  <<least>> \o ascending(counts \ {least})

\* ai-service.ts:299: Object.entries(wordCount): the index keys in ascending
\* order, then the other keys in the order in which they were created.
ObjectEntries(wordCount) ==
  ascending({wordCount[i] : i \in {j \in 1..Len(wordCount) : isIndexKey(wordCount[j].word)}})
    \o SelectSeq(wordCount, LAMBDA c : ~isIndexKey(c.word))

\* ai-service.ts:300: ([,a], [,b]) => b - a
compareCount(x, y) ==
  IF Number(x.count).nan \/ Number(y.count).nan THEN 0
  ELSE Number(y.count).n - Number(x.count).n

RECURSIVE InsertByCount(_, _)
InsertByCount(sorted, x) ==
  IF sorted = <<>> THEN <<x>>
  ELSE IF compareCount(Head(sorted), x) > 0 THEN <<x>> \o sorted
  ELSE <<Head(sorted)>> \o InsertByCount(Tail(sorted), x)

RECURSIVE SortByCountFrom(_, _)
SortByCountFrom(sorted, rest) ==
  IF rest = <<>> THEN sorted
  ELSE SortByCountFrom(InsertByCount(sorted, Head(rest)), Tail(rest))

\* ai-service.ts:301: slice(0, 20)
MaxWords == 20
firstWords(entries) ==
  IF Len(entries) > MaxWords THEN SubSeq(entries, 1, MaxWords) ELSE entries

\* A variant that counts the index from 1.
sizeFromOne(index) == IF 48 - (index + 1) * 2 > 20 THEN 48 - (index + 1) * 2 ELSE 20

\* ai-service.ts:303: Math.max(20, 48 - index * 2), index counted from 0
sizeAt(index) == IF 48 - index * 2 > 20 THEN 48 - index * 2 ELSE 20

\* ai-service.ts:302-305
CloudEntry(count, index) ==
  JObj(<<Member("word", JStr(count.word)), Member("count", count.count),
         Member("size", JNum(sizeAt(index)))>>)
withSizes(entries) == [i \in 1..Len(entries) |-> CloudEntry(entries[i], i - 1)]

\* ai-service.ts:298-305
sortedCloud(wordCount) ==
  withSizes(firstWords(SortByCountFrom(<<>>, ObjectEntries(wordCount))))

\* ai-service.ts:289-308; summaries that are no array, or that hold null,
\* make flatMap or its callback throw a TypeError.
wordCloud(arg) ==
  IF ~arg.present \/ FirstNullish(arg.items) <= Len(arg.items)
    THEN Stage(Thrown(TypeError), {}, <<>>)
    ELSE Stage(Returned(sortedCloud(countWords(<<>>, allKeywords(arg.items)))), {}, <<>>)

(***************************************************************************)
(* Inputs: arguments of the calls and answers of the endpoint              *)
(***************************************************************************)
MaxArticles == 2
MaxEmitted == 11
MaxOdd == 1
ConfidenceValues == {70, 95}

Text(w) == JStr(<<Word(w)>>)
Arg(items) == [present |-> TRUE, items |-> items]
Absent == [present |-> FALSE, items |-> <<>>]

\* An article as deepAnalyzeArticles takes it (ai-service.ts:52-58).
\* content is undefined for an article without content; an article at an even
\* position has no reads.
Article(i, content) ==
  JObj(<<Member("title", JStr(<<Num(i)>>))>>
       \o (IF content.t = "undefined" THEN <<>> ELSE <<Member("content", content)>>)
       \o <<Member("likes", JNum(1)), Member("reads", JNum(IF i % 2 = 1 THEN 10 ELSE 0)),
            Member("url", Text("u"))>>)

\* Contents around the length that the prompt keeps: none, empty, short, of
\* that length, and longer by 1 and by more.
Contents ==
  << JUndefined, JStr(<<>>), JStr(<<Run("a", 2)>>), JStr(<<Run("a", MaxContent)>>),
     JStr(<<Run("a", MaxContent), Run("b", 1)>>),
     JStr(<<Run("a", MaxContent - 1), Run("b", 5)>>) >>

\* Up to MaxArticles articles whose contents are taken in turn from Contents.
ArticleLists ==
  {[i \in 1..n |-> Article(i, Contents[((v + i) % Len(Contents)) + 1])] :
     n \in 0..MaxArticles, v \in 1..Len(Contents)}

\* A summary as the prompt of phase 1 asks for it (ai-service.ts:83-99); one
\* that is not complete leaves targetAudience out when its index is odd, and
\* has the empty string as scenario when its index is even.
Summary(i, complete) ==
  JObj(<<Member("index", JNum(i)), Member("keywords", JArr(<<Text("k")>>))>>
       \o (IF complete \/ i % 2 = 0 THEN <<Member("targetAudience", Text("a"))>> ELSE <<>>)
       \o <<Member("scenario", IF complete \/ i % 2 = 1 THEN Text("s") ELSE JStr(<<>>)),
            Member("painPoint", Text("p"))>>)
SummaryLists ==
  UNION {{[i \in 1..n |-> Summary(i, f[i])] : f \in [1..n -> BOOLEAN]} : n \in 0..MaxArticles}

\* An insight as the prompt of phase 2 asks for it (ai-service.ts:195-226);
\* the title tells the insights of one response apart.
Insight(i, confidence) ==
  JObj(<<Member("title", JStr(<<Num(i)>>)), Member("confidence", JNum(confidence))>>)
\* The confidences of a response of n insights: all the same but for at most
\* MaxOdd of them.
Confidences(n) ==
  {f \in [1..n -> ConfidenceValues] :
     \E base \in ConfidenceValues : Cardinality({i \in 1..n : f[i] # base}) <= MaxOdd}
\* An insight with every field of the schema of the prompt
\* (ai-service.ts:195-226).
SchemaInsight(i, confidence) ==
  JObj(<<Member("title", JStr(<<Num(i)>>)), Member("description", Text("d")),
         Member("confidence", JNum(confidence)), Member("evidence", JArr(<<Text("t")>>)),
         Member("decisionStage", JObj(<<Member("stage", Text("s")), Member("reason", Text("r"))>>)),
         Member("audienceScene",
                JObj(<<Member("audience", Text("a")), Member("scene", Text("s")),
                       Member("reason", Text("r"))>>)),
         Member("demandPainPoint",
                JObj(<<Member("emotionalPain", Text("e")), Member("realisticPain", Text("p")),
                       Member("expectation", Text("x")), Member("reason", Text("r"))>>)),
         Member("tags", JArr(<<Text("g")>>)), Member("marketPotential", Text("high")),
         Member("contentSaturation", JNum(65)), Member("recommendedFormat", Text("f")),
         Member("keyDifferentiators", JArr(<<Text("k")>>))>>)

\* An insight with the keywords that the validation reads (ai-service.ts:271).
KeywordInsight(i, confidence) ==
  JObj(<<Member("title", JStr(<<Num(i)>>)), Member("confidence", JNum(confidence)),
         Member("keywords",
                JObj(<<Member("scene", Text("s")), Member("audience", Text("a")),
                       Member("need", Text("n"))>>))>>)

InsightLists ==
  UNION {{[i \in 1..n |-> Insight(i, f[i])] : f \in Confidences(n)} : n \in 0..MaxEmitted}
    \cup {<<SchemaInsight(1, 85)>>, <<KeywordInsight(1, 85), SchemaInsight(2, 85)>>,
          <<Insight(1, 95), Insight(2, 150)>>}

\* Summaries as generateWordCloud reads them (ai-service.ts:290): the first
\* with the keywords w1..wn, then none, or one without keywords, or one that
\* repeats a keyword, or one with keywords that differ in case only, with a
\* keyword that is a numeral, or (after a first one without keywords) with
\* the name of a method of Object.prototype.
MaxKeywords == 21
Keyword(i) == JStr(<<Word("w"), Num(i)>>)
Keyed(words) == JObj(<<Member("keywords", JArr(words))>>)
SecondSummaries(n) ==
  {<<>>, <<JObj(<<Member("index", JNum(1))>>)>>,
   <<Keyed(<<Text("a"), Text("A"), Text("a")>>)>>,
   <<Keyed(<<Text("ai"), JStr(<<Num(2024)>>), JStr(<<Num(5)>>)>>)>>}
    \cup {<<Keyed(<<Keyword(j)>>)>> : j \in 1..n}
    \cup (IF n = 0 THEN {<<Keyed(<<Text("constructor")>>)>>} ELSE {})
CloudLists ==
  {<<>>} \cup UNION {{<<Keyed([i \in 1..n |-> Keyword(i)])>> \o second :
                        second \in SecondSummaries(n)} : n \in 0..MaxKeywords}

Doc(key, items) == JObj(<<Member(key, JArr(items))>>)
NotJson == <<Word("not"), Ws, Word("json")>>
Fenced(text) == FenceJson \o <<Ws>> \o text \o <<Ws, Fence>>

\* Texts that are not the document asked for.
OddTexts(key) ==
  { <<>>, NotJson, Fenced(NotJson),
    Render(JObj(<<>>)), Render(JNum(5)), Render(JNull),
    Render(JObj(<<Member(key, JNum(5))>>)),
    Render(JObj(<<Member(key, JArr(<<JNull>>))>>)),
    <<Fence, Ws>> \o Render(Doc(key, <<>>)) \o <<Ws, Fence>> }

DeepTexts ==
  {Render(Doc("summaries", l)) : l \in SummaryLists}
    \cup {Fenced(Render(Doc("summaries", l))) : l \in SummaryLists}
    \cup OddTexts("summaries")

InsightTexts ==
  {Render(Doc("insights", l)) : l \in InsightLists}
    \cup {Fenced(Render(Doc("insights", l))) : l \in {m \in InsightLists : Len(m) <= 1}}
    \cup OddTexts("insights")

Completion(text) ==
  JObj(<<Member("choices", JArr(<<JObj(<<Member("message", JObj(<<Member("content", JStr(text))>>))>>)>>))>>)
ErrorBody(message) == JObj(<<Member("error", JObj(<<Member("message", message)>>))>>)
Status429 == <<Word("Too Many Requests")>>

\* Answers that carry no completion text.
Failures ==
  { Envelope(TRUE, FALSE, <<>>, FALSE, JUndefined),
    Envelope(FALSE, FALSE, Status429, TRUE, ErrorBody(Text("quota exceeded"))),
    Envelope(FALSE, FALSE, Status429, TRUE, JObj(<<>>)),
    Envelope(FALSE, FALSE, Status429, TRUE, JNull),
    Envelope(FALSE, FALSE, Status429, FALSE, JUndefined),
    Envelope(FALSE, TRUE, <<Word("OK")>>, FALSE, JUndefined),
    Envelope(FALSE, TRUE, <<Word("OK")>>, TRUE, JNull),
    Envelope(FALSE, TRUE, <<Word("OK")>>, TRUE, JObj(<<>>)),
    Envelope(FALSE, TRUE, <<Word("OK")>>, TRUE, JObj(<<Member("choices", JArr(<<>>))>>)),
    Envelope(FALSE, TRUE, <<Word("OK")>>, TRUE, JObj(<<Member("choices", JArr(<<JObj(<<>>)>>))>>)) }

Envelopes(o) ==
  Failures \cup {Envelope(FALSE, TRUE, <<Word("OK")>>, TRUE, Completion(t)) :
                   t \in IF o = "deep" THEN DeepTexts ELSE InsightTexts}

(***************************************************************************)
(* State                                                                   *)
(***************************************************************************)
VARIABLES
  OPENAI_API_KEY,  \* the credential read at load time, "" when not configured
  pc,              \* "idle", "fetch" (the request is in flight), "settled"
  op,              \* the function that is running: "none", "deep", "insights", "cloud"
  input,           \* its argument: articles or summaries
  requests,        \* requests sent to the endpoint by the running stage call
  reply,           \* the HTTP answers the stage call has received
  answer,          \* what callOpenAI returned or threw to the stage
  outcome,         \* what the stage call came to: Pending, Returned, Thrown
  warned,          \* console.warn of the stage call
  logged,          \* console.error of the stage call
  articlesJson,    \* the article data in the prompt of the running phase 1
  pipeline         \* the orchestrator: phase, summaries, insights

\* The state of the analysis page (app/analysis/page.tsx:176-188) and the
\* runs of its handlers that await something.
VARIABLES
  keyword,           \* the text of the keyword field
  isAnalyzing,
  showResult,
  progress,
  articles,          \* the articles on display
  error,             \* the message on display, "" for none
  searchHistory,     \* the history items the dialog lists
  showHistoryModal,
  aiInsights,
  aiSummaries,
  runs,              \* the runs of handleAnalysis that have not ended
  started,           \* the number of runs of handleAnalysis so far
  historyLoading     \* the request of the mount effect is in flight

serviceVars ==
  <<OPENAI_API_KEY, pc, op, input, requests, reply, answer, outcome, warned, logged,
    articlesJson, pipeline>>

pageVars ==
  <<keyword, isAnalyzing, showResult, progress, articles, error, searchHistory,
    showHistoryModal, aiInsights, aiSummaries, runs, started, historyLoading>>

vars == <<serviceVars, pageVars>>

Pipe(phase, summaries, insights) == [phase |-> phase, summaries |-> summaries, insights |-> insights]
PipeOff == Pipe("off", <<>>, <<>>)

Init ==
  /\ OPENAI_API_KEY \in {"", "sk-key"}
  /\ pc = "idle"
  /\ op = "none"
  /\ input = Absent
  /\ requests = 0
  /\ reply = <<>>
  /\ answer = NoAnswer
  /\ outcome = Pending
  /\ warned = {}
  /\ logged = <<>>
  /\ articlesJson = <<>>
  /\ pipeline = PipeOff
  /\ keyword = ""
  /\ isAnalyzing = FALSE
  /\ showResult = FALSE
  /\ progress = 0
  /\ articles = <<>>
  /\ error = ""
  /\ searchHistory = {}
  /\ showHistoryModal = FALSE
  /\ aiInsights = <<>>
  /\ aiSummaries = <<>>
  /\ runs = {}
  /\ started = 0
  /\ historyLoading = TRUE

\* The stage call ends as stage says.
Settle(stage) ==
  /\ outcome' = stage.outcome
  /\ warned' = stage.warned
  /\ logged' = stage.logged
  /\ pc' = "settled"

\* The stage o goes on with the answer of callOpenAI.
Finish(o, a) == IF o = "deep" THEN deepAnalyzeFinish(a) ELSE generateInsightsFinish(a)

\* callOpenAI is called: it throws at once, or its request is in flight.
Call(o, c) ==
  /\ requests' = c.sent
  /\ answer' = c.answer
  /\ IF c.sent = 0 THEN Settle(Finish(o, c.answer))
     ELSE /\ outcome' = Pending
          /\ warned' = {}
          /\ logged' = <<>>
          /\ pc' = "fetch"

\* A variant that reads the credential before it looks at the list.
EnterCredentialFirst(o, arg) ==
  /\ op' = o
  /\ input' = arg
  /\ reply' = <<>>
  /\ articlesJson' = IF o = "deep" /\ ~isEmpty(arg) THEN buildArticlesJson(arg.items) ELSE <<>>
  /\ IF isEmpty(arg) /\ OPENAI_API_KEY # ""
       THEN /\ requests' = 0
            /\ answer' = NoAnswer
            /\ Settle(Stage(Returned(<<>>), {}, <<>>))
       ELSE Call(o, callOpenAISend(OPENAI_API_KEY))

\* Entry of a stage up to its first await: the empty-input return, else the
\* call of callOpenAI (ai-service.ts:60-62, 111 and 154-156, 244).
Enter(o, arg) ==
  /\ op' = o
  /\ input' = arg
  /\ reply' = <<>>
  /\ articlesJson' = IF o = "deep" /\ ~isEmpty(arg) THEN buildArticlesJson(arg.items) ELSE <<>>
  /\ IF isEmpty(arg)
       THEN /\ requests' = 0
            /\ answer' = NoAnswer
            /\ Settle(Stage(Returned(<<>>), {}, <<>>))
       ELSE Call(o, callOpenAISend(OPENAI_API_KEY))

\* A caller invokes deepAnalyzeArticles(articles).
deepAnalyzeArticles ==
  /\ pc = "idle"
  /\ \E arg \in {Absent} \cup {Arg(l) : l \in ArticleLists} : Enter("deep", arg)
  /\ UNCHANGED <<pageVars, OPENAI_API_KEY, pipeline>>

\* A caller invokes generateSmartTopicInsights(summaries, stats).
generateSmartTopicInsights ==
  /\ pc = "idle"
  /\ \E arg \in {Absent, Arg(<<>>), Arg(<<Summary(1, TRUE)>>)} : Enter("insights", arg)
  /\ UNCHANGED <<pageVars, OPENAI_API_KEY, pipeline>>

\* A caller invokes generateWordCloud(summaries): it awaits nothing.
generateWordCloud ==
  /\ pc = "idle"
  /\ \E arg \in {Absent} \cup {Arg(l) : l \in CloudLists} :
       /\ op' = "cloud"
       /\ input' = arg
       /\ Settle(wordCloud(arg))
  /\ requests' = 0
  /\ reply' = <<>>
  /\ answer' = NoAnswer
  /\ articlesJson' = <<>>
  /\ UNCHANGED <<pageVars, OPENAI_API_KEY, pipeline>>

\* callOpenAI settles with a, and the stage that awaits it runs to its end.
Resume(a) ==
  /\ answer' = a
  /\ requests' = requests + resend(a)
  /\ Settle(Finish(op, a))

\* fetch settles with an HTTP answer.
FetchSettles ==
  /\ pc = "fetch"
  /\ \E env \in Envelopes(op) :
       /\ reply' = <<env>>
       /\ Resume(callOpenAISettle(env))
  /\ UNCHANGED <<pageVars, OPENAI_API_KEY, op, input, articlesJson, pipeline>>

\* The caller has taken the outcome of a direct call, or of the pipeline.
Return ==
  /\ pc = "settled"
  /\ pipeline.phase \in {"off", "succeeded", "failed"}
  /\ pc' = "idle"
  /\ op' = "none"
  /\ input' = Absent
  /\ requests' = 0
  /\ reply' = <<>>
  /\ answer' = NoAnswer
  /\ outcome' = Pending
  /\ warned' = {}
  /\ logged' = <<>>
  /\ articlesJson' = <<>>
  /\ pipeline' = PipeOff
  /\ UNCHANGED <<pageVars, OPENAI_API_KEY>>

(***************************************************************************)
(* The orchestrator that runs phase 1, then phase 2 on its summaries       *)
(***************************************************************************)
analysisPipeline ==
  /\ pc = "idle"
  /\ \E list \in ArticleLists : Enter("deep", Arg(list))
  /\ pipeline' = Pipe("phase1", <<>>, <<>>)
  /\ UNCHANGED <<pageVars, OPENAI_API_KEY>>

\* Phase 1 has returned its summaries: phase 2 is called with them.
PipelinePhase2 ==
  /\ pc = "settled"
  /\ pipeline.phase = "phase1"
  /\ outcome.status = "returned"
  /\ Enter("insights", Arg(outcome.value))
  /\ pipeline' = Pipe("phase2", outcome.value, <<>>)
  /\ UNCHANGED <<pageVars, OPENAI_API_KEY>>

\* Phase 2 has returned its insights: the request succeeds with both results.
PipelineSucceeds ==
  /\ pc = "settled"
  /\ pipeline.phase = "phase2"
  /\ outcome.status = "returned"
  /\ pipeline' = Pipe("succeeded", pipeline.summaries, outcome.value)
  /\ UNCHANGED <<pageVars, OPENAI_API_KEY, pc, op, input, requests, reply, answer, outcome, warned, logged,
                 articlesJson>>

\* A stage has thrown: the request fails, with nothing of what was computed.
PipelineFails ==
  /\ pc = "settled"
  /\ pipeline.phase \in {"phase1", "phase2"}
  /\ outcome.status = "thrown"
  /\ pipeline' = Pipe("failed", <<>>, <<>>)
  /\ UNCHANGED <<pageVars, OPENAI_API_KEY, pc, op, input, requests, reply, answer, outcome, warned, logged,
                 articlesJson>>

Next ==
  \/ deepAnalyzeArticles
  \/ generateSmartTopicInsights
  \/ generateWordCloud
  \/ FetchSettles
  \/ analysisPipeline
  \/ PipelinePhase2
  \/ PipelineSucceeds
  \/ PipelineFails
  \/ Return

Spec == Init /\ [][Next]_vars

(***************************************************************************)
(* The analysis page (app/analysis/page.tsx).  What a run fetches is       *)
(* marked with the keyword and the number of the run that fetched it; the  *)
(* answers of the search, of /api/ai-analysis and of /api/history are      *)
(* inputs.                                                                 *)
(***************************************************************************)
MaxRuns == 2

\* page.tsx:184, useState<number>(5)
articleCount == 5

\* n records that the run of number run got for the keyword kw; run 0 is a
\* visit of the page before this one.
Items(kw, run, n) == [i \in 1..n |-> [kw |-> kw, run |-> run, i |-> i]]

\* page.tsx:243-255: handleAnalysis up to its first await.  The run keeps the
\* keyword of the render that created the handler.
handleAnalysis ==
  /\ keyword # ""
  /\ started < MaxRuns
  /\ isAnalyzing' = TRUE
  /\ progress' = 10
  /\ showResult' = FALSE
  /\ error' = ""
  /\ started' = started + 1
  /\ runs' = runs \cup {[id |-> started + 1, kw |-> keyword, at |-> "search", articlesData |-> <<>>]}
  /\ UNCHANGED <<keyword, articles, searchHistory, showHistoryModal, aiInsights, aiSummaries,
                 historyLoading>>

\* page.tsx:488-491: the button, disabled={!keyword || isAnalyzing}; the
\* overlay of the history dialog covers it.
clickAnalyze ==
  /\ ~isAnalyzing
  /\ ~showHistoryModal
  /\ handleAnalysis
  /\ UNCHANGED serviceVars

\* page.tsx:472: onKeyPress={(e) => e.key === 'Enter' && handleAnalysis()} of
\* the keyword field, which is never disabled.
pressEnter ==
  /\ ~showHistoryModal
  /\ handleAnalysis
  /\ UNCHANGED serviceVars

\* page.tsx:469 and 480: the keyword field is edited, or a tag is clicked.
typeKeyword ==
  /\ ~showHistoryModal
  /\ \E kw \in {"", "a", "b"} : kw # keyword /\ keyword' = kw
  /\ UNCHANGED <<serviceVars, isAnalyzing, showResult, progress, articles, error, searchHistory,
                 showHistoryModal, aiInsights, aiSummaries, runs, started, historyLoading>>

\* page.tsx:400
openHistory ==
  /\ ~showHistoryModal
  /\ showHistoryModal' = TRUE
  /\ UNCHANGED <<serviceVars, keyword, isAnalyzing, showResult, progress, articles, error,
                 searchHistory, aiInsights, aiSummaries, runs, started, historyLoading>>

\* page.tsx:840, 850, 898
closeHistory ==
  /\ showHistoryModal
  /\ showHistoryModal' = FALSE
  /\ UNCHANGED <<serviceVars, keyword, isAnalyzing, showResult, progress, articles, error,
                 searchHistory, aiInsights, aiSummaries, runs, started, historyLoading>>

\* page.tsx:872-879: an item of the history dialog is clicked.
clickHistoryItem ==
  /\ showHistoryModal
  /\ \E item \in searchHistory :
       /\ keyword' = item.keyword
       /\ IF item.articlesData # <<>>
            THEN articles' = item.articlesData /\ showResult' = TRUE
            ELSE UNCHANGED <<articles, showResult>>
  /\ showHistoryModal' = FALSE
  /\ UNCHANGED <<serviceVars, isAnalyzing, progress, error, searchHistory, aiInsights,
                 aiSummaries, runs, started, historyLoading>>

\* page.tsx:191-203: the request of the mount effect settles, with the items
\* of earlier visits or with none, or fails.
loadHistory ==
  /\ historyLoading
  /\ historyLoading' = FALSE
  /\ \E loaded \in SUBSET {[keyword |-> "b", articlesData |-> Items("b", 0, 1)],
                           [keyword |-> "a", articlesData |-> <<>>]} :
       searchHistory' = IF loaded = {} THEN searchHistory ELSE loaded
  /\ UNCHANGED <<serviceVars, keyword, isAnalyzing, showResult, progress, articles, error,
                 showHistoryModal, aiInsights, aiSummaries, runs, started>>

\* page.tsx:315-320, the catch block: the run r ends with the message msg.
Fail(r, msg) ==
  /\ error' = msg
  /\ isAnalyzing' = FALSE
  /\ progress' = 0
  /\ runs' = runs \ {r}

\* page.tsx:255-269 and 311-313: searchWeChatArticles settles for a run: it
\* throws, or answers with found articles.
SearchSettles ==
  /\ \E r \in runs, found \in {-1, 0, 2, 7} :
       /\ r.at = "search"
       /\ IF found = -1 THEN Fail(r, "search failed") /\ UNCHANGED articles
          ELSE IF found = 0 THEN Fail(r, "no article found") /\ UNCHANGED articles
          ELSE LET articlesData == Items(r.kw, r.id, IF found < articleCount THEN found ELSE articleCount)
               IN  /\ articles' = articlesData
                   /\ progress' = 50
                   /\ runs' = (runs \ {r}) \cup {[r EXCEPT !.at = "ai", !.articlesData = articlesData]}
                   /\ UNCHANGED <<error, isAnalyzing>>
  /\ UNCHANGED <<serviceVars, keyword, showResult, searchHistory, showHistoryModal, aiInsights,
                 aiSummaries, started, historyLoading>>

\* page.tsx:272-306: the request to /api/ai-analysis settles for a run: it
\* fails (the fetch rejects, the status is not 2xx, success is false), or it
\* answers with the summaries and n insights.
AiAnalysisSettles ==
  /\ \E r \in runs, n \in {-2, -1, 0, 2} :
       /\ r.at = "ai"
       /\ IF n = -2 THEN Fail(r, "AI analysis failed") /\ UNCHANGED <<aiSummaries, aiInsights, showResult>>
          ELSE IF n = -1
            THEN Fail(r, "AI analysis returned a failure") /\ UNCHANGED <<aiSummaries, aiInsights, showResult>>
          ELSE /\ aiSummaries' = Items(r.kw, r.id, Len(r.articlesData))
               /\ aiInsights' = Items(r.kw, r.id, n)
               /\ progress' = 100
               /\ isAnalyzing' = FALSE
               /\ showResult' = TRUE
               /\ runs' = (runs \ {r}) \cup {[r EXCEPT !.at = "save"]}
               /\ UNCHANGED error
  /\ UNCHANGED <<serviceVars, keyword, articles, searchHistory, showHistoryModal, started,
                 historyLoading>>

\* page.tsx:205-234 and 306-311: saveSearchHistory settles for a run: the
\* item is saved and the history is loaded again, or the request fails.
SaveSettles ==
  /\ \E r \in runs, saved \in BOOLEAN :
       /\ r.at = "save"
       /\ runs' = runs \ {r}
       /\ searchHistory' =
            IF saved THEN searchHistory \cup {[keyword |-> r.kw, articlesData |-> r.articlesData]}
                     ELSE searchHistory
  /\ UNCHANGED <<serviceVars, keyword, isAnalyzing, showResult, progress, articles, error,
                 showHistoryModal, aiInsights, aiSummaries, started, historyLoading>>

NextPage ==
  \/ clickAnalyze
  \/ pressEnter
  \/ typeKeyword
  \/ openHistory
  \/ closeHistory
  \/ clickHistoryItem
  \/ loadHistory
  \/ SearchSettles
  \/ AiAnalysisSettles
  \/ SaveSettles

SpecPage == Init /\ [][NextPage]_vars

(***************************************************************************)
(* Properties                                                              *)
(***************************************************************************)
\* The insights array of the document that the completion text holds, and
\* whether the text holds one.
InsightsOf(p) ==
  IF p.ok /\ ~Nullish(p.val) /\ Get(p.val, "insights").t = "arr"
    THEN [found |-> TRUE, a |-> Get(p.val, "insights").a]
    ELSE [found |-> FALSE, a |-> <<>>]

Emitted ==
  IF op = "insights" /\ pc = "settled" /\ answer.status = "returned" /\ answer.content.t = "str"
    THEN InsightsOf(JSONparse(cleanResponse(answer.content.s)))
    ELSE [found |-> FALSE, a |-> <<>>]

isInsight(v) == v.t = "obj" /\ Get(v, "confidence").t = "num"
confidenceOf(v) == Get(v, "confidence").n
Min(a, b) == IF a < b THEN a ELSE b

\* Position of the returned insight x in the emitted sequence e.
PositionIn(e, x) == CHOOSE k \in 1..Len(e) : e[k] = x

\* C1: of more than ten emitted insights, generateSmartTopicInsights returns
\* the ten of highest confidence of the whole emitted sequence: every emitted
\* insight that is not returned has a confidence no higher than that of every
\* returned one.
TopTenOfAll(e) ==
  (e.found /\ Len(e.a) > MaxInsights /\ \A k \in 1..Len(e.a) : isInsight(e.a[k])) =>
    /\ outcome.status = "returned"
    /\ Len(outcome.value) = MaxInsights
    /\ \A k \in 1..Len(e.a) :
         (\A j \in 1..Len(outcome.value) : outcome.value[j] # e.a[k]) =>
           \A j \in 1..Len(outcome.value) :
             confidenceOf(outcome.value[j]) >= confidenceOf(e.a[k])

C1_TopTenOfAll == TopTenOfAll(Emitted)

\* C2: of n parsed insights with integer confidence, the stage returns
\* min(n, 10) of them, in an order that is non-increasing in confidence.
LengthAndOrder(e) ==
  (e.found /\ \A k \in 1..Len(e.a) : isInsight(e.a[k])) =>
    /\ outcome.status = "returned"
    /\ Len(outcome.value) = Min(Len(e.a), 10)
    /\ \A i \in 1..(Len(outcome.value) - 1) :
         confidenceOf(outcome.value[i]) >= confidenceOf(outcome.value[i + 1])

Reordered(e) ==
  /\ e.found
  /\ Len(e.a) > MaxInsights
  /\ outcome.status = "returned"
  /\ Len(outcome.value) = MaxInsights
  /\ outcome.value # SubSeq(e.a, 1, MaxInsights)

Stable(e) ==
  (e.found /\ outcome.status = "returned") =>
    \A i, j \in 1..Len(outcome.value) :
      (i < j /\ confidenceOf(outcome.value[i]) = confidenceOf(outcome.value[j])) =>
        PositionIn(e.a, outcome.value[i]) < PositionIn(e.a, outcome.value[j])

C3_Stable == Stable(Emitted)

\* Two insights of the highest confidence were moved ahead of one emitted
\* before them.
TiesMovedAhead(e) ==
  /\ e.found
  /\ PositionIn(e.a, outcome.value[3]) < PositionIn(e.a, outcome.value[1])
  /\ PositionIn(e.a, outcome.value[1]) < PositionIn(e.a, outcome.value[2])

C3_Witness ==
  /\ outcome.status = "returned"
  /\ Len(outcome.value) >= 3
  /\ confidenceOf(outcome.value[1]) = confidenceOf(outcome.value[2])
  /\ confidenceOf(outcome.value[2]) > confidenceOf(outcome.value[3])
  /\ TiesMovedAhead(Emitted)

\* C4: a stage called with an empty or an absent list returns the empty
\* sequence and has sent no request.
C4_EmptyInput ==
  (pc = "settled" /\ op \in {"deep", "insights"} /\ (~input.present \/ input.items = <<>>)) =>
    /\ outcome = Returned(<<>>)
    /\ requests = 0
    /\ reply = <<>>

\* generateSmartTopicInsights was called with an empty list while a
\* credential was configured, and has returned.
C4_Witness ==
  /\ OPENAI_API_KEY # ""
  /\ pc = "settled"
  /\ op = "insights"
  /\ input = Arg(<<>>)
  /\ outcome = Returned(<<>>)

\* C5: without a credential no request is ever sent, and every call of the
\* completion client throws the configuration error.
C5_NoCredential ==
  OPENAI_API_KEY = "" =>
    /\ requests = 0
    /\ reply = <<>>
    /\ pc # "fetch"
    /\ (pc = "settled" /\ op \in {"deep", "insights"} /\ input.present /\ input.items # <<>>) =>
         /\ answer = Throws(ConfigurationError)
         /\ outcome.status = "thrown"

C5_Witness ==
  /\ OPENAI_API_KEY = ""
  /\ pc = "settled"
  /\ input.present /\ input.items # <<>>
  /\ answer.error = ConfigurationError
  /\ requests = 0

\* C6: a stage call sends at most one request; it has sent exactly one once
\* it has called the completion client with a credential configured, and a
\* request that failed is not sent again.
C6_OneRequest ==
  /\ requests <= 1
  /\ Len(reply) <= requests
  /\ (OPENAI_API_KEY # "" /\ pc \in {"fetch", "settled"} /\ op \in {"deep", "insights"}
        /\ input.present /\ input.items # <<>>) =>
       requests = 1

\* The one request of a stage call was answered with a status that is not a
\* success, and the call has ended.
C6_Witness ==
  /\ pc = "settled"
  /\ reply # <<>>
  /\ ~reply[1].rejected /\ ~reply[1].ok
  /\ answer.status = "thrown"
  /\ outcome.status = "thrown"
  /\ requests = 1

\* C7, the stage: an error thrown by the completion client is the error the
\* stage throws; it is not the stage's own malformed-response error, the
\* catch block has not run, and nothing is returned.
ClientFailurePropagates ==
  (pc = "settled" /\ answer.status = "thrown") =>
    /\ outcome = Thrown(answer.error)
    /\ outcome.error \notin {DeepAnalysisFailed, InsightsFailed}
    /\ outcome.value = <<>>
    /\ logged = <<>>

\* C7, the pipeline: a failed run carries neither summaries nor insights.
NoPartialResult ==
  pipeline.phase = "failed" => pipeline.summaries = <<>> /\ pipeline.insights = <<>>

\* C7, the pipeline: once a stage has thrown, the run can only fail, and no
\* further request is sent.
AbortsAfterFailure ==
  (pipeline.phase \in {"phase1", "phase2"} /\ pc = "settled" /\ outcome.status = "thrown") =>
    /\ pipeline'.phase = "failed"
    /\ requests' = requests
    /\ outcome' = outcome

GenericMessage == <<Word("Unknown error")>>

\* The text at error.message of an error body, empty when it holds none.
ProviderMessage(data) ==
  IF data.t = "obj" /\ Get(data, "error").t = "obj" /\ Get(Get(data, "error"), "message").t = "str"
    THEN Get(Get(data, "error"), "message").s
    ELSE <<>>

NoChoices(data) ==
  data.t = "obj" /\ (Get(data, "choices").t = "undefined" \/ Get(data, "choices") = JArr(<<>>))

\* C9: when a successful response holds no choices, the completion client
\* returns the empty string, and the stage does not return a result.
C9_NoChoices ==
  (pc = "settled" /\ reply # <<>> /\ ~reply[1].rejected /\ reply[1].ok
     /\ reply[1].parses /\ NoChoices(reply[1].data)) =>
    /\ answer = Answer("returned", JStr(<<>>), NoError)
    /\ outcome.status # "returned"

\* The texts of claim C10: one that is no document, bare and in a fence.
MalformedTexts == {NotJson, Fenced(NotJson)}

\* C10: a completion text that is no document, bare or wrapped in a fence,
\* makes either stage throw its malformed-response error and return nothing.
C10_Malformed ==
  (pc = "settled" /\ answer.status = "returned" /\ answer.content \in {JStr(t) : t \in MalformedTexts}) =>
    /\ outcome = Thrown(IF op = "deep" THEN DeepAnalysisFailed ELSE InsightsFailed)
    /\ outcome.value = <<>>

\* The fenced text that is no document came back to generateSmartTopicInsights.
C10_Witness ==
  /\ pc = "settled"
  /\ op = "insights"
  /\ answer.content = JStr(Fenced(NotJson))
  /\ outcome = Thrown(InsightsFailed)

\* The text t stands somewhere in the text m.
Holds(m, t) == \E i \in 1..(Len(m) - Len(t) + 1) : SubSeq(m, i, i + Len(t) - 1) = t

\* C11: when a stage fails because the completion text did not parse, the
\* error it throws to its caller carries that raw text.
C11_RawTextRetained ==
  (pc = "settled" /\ answer.status = "returned" /\ answer.content.t = "str"
     /\ answer.content.s # <<>> /\ outcome.status = "thrown") =>
    Holds(outcome.error.message, answer.content.s)

\* The text r is a text between a leading and a trailing fence marker; Inner
\* is that text, the leading marker taken with its language tag json if it
\* has one.
isWrapped(r) == Len(r) >= 3 /\ r[1] = Fence /\ r[Len(r)] = Fence
Inner(r) == IF r[2] = Word("json") THEN SubSeq(r, 3, Len(r) - 1) ELSE SubSeq(r, 2, Len(r) - 1)

\* The parse result p of the cleaned response is the value of the document
\* whose parse result is q.
SameValue(p, q) == q.ok => (p.ok /\ p.val = q.val)

\* C12: a response that is a valid document between a leading and a trailing
\* fence marker, tagged or not, is normalized to the value of the document.
C12_FenceTransparent ==
  (pc = "settled" /\ answer.status = "returned" /\ answer.content.t = "str"
     /\ isWrapped(answer.content.s)) =>
    SameValue(JSONparse(cleanResponse(answer.content.s)), JSONparse(Inner(answer.content.s)))

\* The summaries array of the document that the completion text holds, and
\* whether the text holds one.
SummariesOf(p) ==
  IF p.ok /\ ~Nullish(p.val) /\ Get(p.val, "summaries").t = "arr"
    THEN [found |-> TRUE, a |-> Get(p.val, "summaries").a]
    ELSE [found |-> FALSE, a |-> <<>>]

Summarized ==
  IF op = "deep" /\ pc = "settled" /\ answer.status = "returned" /\ answer.content.t = "str"
    THEN SummariesOf(JSONparse(cleanResponse(answer.content.s)))
    ELSE [found |-> FALSE, a |-> <<>>]

\* The field of the record is missing or empty.
isBlank(record, field) == Get(record, field).t = "undefined" \/ Get(record, field) = JStr(<<>>)
isIncomplete(record) ==
  isBlank(record, "targetAudience") \/ isBlank(record, "scenario") \/ isBlank(record, "painPoint")

Advisory(e) ==
  (e.found /\ \A k \in 1..Len(e.a) : e.a[k].t = "obj") =>
    /\ outcome = Returned(e.a)
    /\ warned = {MissingTargeting(k) : k \in {j \in 1..Len(e.a) : isIncomplete(e.a[j])}}
    /\ logged = <<>>

TwoRecordsOneWarning(e) ==
  /\ e.found
  /\ Len(e.a) = 2
  /\ ~isIncomplete(e.a[1]) /\ isIncomplete(e.a[2])
  /\ outcome = Returned(e.a)

RoundTrip(e) ==
  (e.found /\ \A k \in 1..Len(e.a) : e.a[k].t = "obj" /\ ~isIncomplete(e.a[k])) =>
    /\ warned = {}
    /\ outcome.status = "returned"
    /\ Len(outcome.value) = Len(input.items)

\* C14: when the response is a summary document whose records all have the
\* required fields, deepAnalyzeArticles warns of nothing and returns as many
\* records as it was given articles.
C14_RoundTrip == RoundTrip(Summarized)

\* The insight carries the three classification objects of the schema with
\* all their sub-fields.
hasFields(v, fields) == v.t = "obj" /\ \A f \in fields : Truthy(Get(v, f))
isClassified(insight) ==
  /\ hasFields(Get(insight, "decisionStage"), {"stage", "reason"})
  /\ hasFields(Get(insight, "audienceScene"), {"audience", "scene", "reason"})
  /\ hasFields(Get(insight, "demandPainPoint"),
               {"emotionalPain", "realisticPain", "expectation", "reason"})

WarnsOfMissingOnly(e) ==
  (e.found /\ \A k \in 1..Len(e.a) : e.a[k].t = "obj") =>
    /\ outcome.status = "returned"
    /\ \A k \in 1..Min(Len(e.a), MaxInsights) :
         /\ MissingKeywords(k) \in warned <=> ~isClassified(e.a[k])
         /\ \E j \in 1..Len(outcome.value) : outcome.value[j] = e.a[k]

\* C15: the validation of phase 2 warns of an insight exactly when it lacks a
\* classification sub-field of the schema, so not of an insight that has all
\* the fields of the schema, and every insight it looked at is returned as
\* it was.
C15_WarnsOfMissingOnly == WarnsOfMissingOnly(Emitted)

\* C16: every insight that generateSmartTopicInsights returns has an integer
\* confidence from 0 to 100.
C16_ConfidenceRange ==
  (op = "insights" /\ pc = "settled" /\ outcome.status = "returned") =>
    \A j \in 1..Len(outcome.value) :
      /\ Get(outcome.value[j], "confidence").t = "num"
      /\ Get(outcome.value[j], "confidence").n \in 0..100

\* The word-cloud call has ended on summaries that are all records.
CloudCase ==
  /\ op = "cloud" /\ pc = "settled" /\ input.present
  /\ \A i \in 1..Len(input.items) : input.items[i].t = "obj"

wordAt(k) == Get(outcome.value[k], "word")
countAt(k) == Get(outcome.value[k], "count")

\* The places of the keyword lists of the summaries where the word stands.
keywordList(i) ==
  IF Get(input.items[i], "keywords").t = "arr" THEN Get(input.items[i], "keywords").a ELSE <<>>
Occurrences(word) ==
  UNION {{<<i, j>> : j \in {k \in 1..Len(keywordList(i)) : keywordList(i)[k] = word}} :
           i \in 1..Len(input.items)}

\* C17: generateWordCloud returns at most 20 entries, their words pairwise
\* distinct, and the count of each is the number of places where exactly
\* that string stands among the keywords of the summaries, so at least 1.
C17_Counts ==
  CloudCase =>
    /\ outcome.status = "returned"
    /\ Len(outcome.value) <= 20
    /\ \A k, l \in 1..Len(outcome.value) : k # l => wordAt(k) # wordAt(l)
    /\ \A k \in 1..Len(outcome.value) :
         /\ countAt(k) = JNum(Cardinality(Occurrences(wordAt(k))))
         /\ countAt(k).n >= 1

\* The place <<i, j>> comes before the place <<k, l>> in the flattened
\* keyword sequence.
Before(p, q) == p[1] < q[1] \/ (p[1] = q[1] /\ p[2] < q[2])
FirstSeen(word) == CHOOSE p \in Occurrences(word) : \A q \in Occurrences(word) : p = q \/ Before(p, q)

\* The word v goes before the word w: it stands more often, or as often and
\* was seen first.
GoesBefore(v, w) ==
  \/ Cardinality(Occurrences(v)) > Cardinality(Occurrences(w))
  \/ /\ Cardinality(Occurrences(v)) = Cardinality(Occurrences(w))
     /\ Before(FirstSeen(v), FirstSeen(w))

\* The keywords of the summaries that are strings.
KeywordsSeen ==
  UNION {{keywordList(i)[j] : j \in 1..Len(keywordList(i))} : i \in 1..Len(input.items)}

\* C18: the entries stand by count descending and, at equal count, in the
\* order in which their words were first seen, whatever the word is; a word
\* that is left out goes after all the words that are kept.
C18_Order ==
  (CloudCase /\ outcome.status = "returned") =>
    /\ \A k, l \in 1..Len(outcome.value) : k < l => GoesBefore(wordAt(k), wordAt(l))
    /\ \A w \in KeywordsSeen :
         (\A k \in 1..Len(outcome.value) : wordAt(k) # w) =>
           /\ Len(outcome.value) = 20
           /\ \A k \in 1..Len(outcome.value) : GoesBefore(wordAt(k), w)

sizeOf(k) == Get(outcome.value[k], "size").n
Max(a, b) == IF a > b THEN a ELSE b

\* C19: the entry at position r, counted from 0, has size max(20, 48 - 2r):
\* the sizes do not increase along the result, lie in 20..48, and are 20 at
\* the positions 14 to 19.
C19_Sizes ==
  (CloudCase /\ outcome.status = "returned") =>
    /\ \A k \in 1..Len(outcome.value) :
         /\ sizeOf(k) = Max(20, 48 - 2 * (k - 1))
         /\ sizeOf(k) \in 20..48
         /\ (k - 1) \in 14..19 => sizeOf(k) = 20
    /\ \A k \in 1..(Len(outcome.value) - 1) : sizeOf(k) >= sizeOf(k + 1)

\* The word cloud of more than 20 distinct keywords was returned: it has the
\* positions 0 to 19.
C19_Witness ==
  /\ CloudCase
  /\ outcome.status = "returned"
  /\ Cardinality(KeywordsSeen) > 20
  /\ Len(outcome.value) = 20
  /\ sizeOf(1) = 48 /\ sizeOf(14) = 22 /\ sizeOf(20) = 20

\* The number of characters of a text of runs.
RECURSIVE Chars(_)
Chars(text) == IF text = <<>> THEN 0 ELSE Head(text).n + Chars(Tail(text))

\* The text of runs p is the beginning of the text of runs t.
IsPrefix(p, t) ==
  /\ Len(p) <= Len(t)
  /\ \A r \in 1..(Len(p) - 1) : p[r] = t[r]
  /\ p # <<>> => (p[Len(p)].s = t[Len(p)].s /\ p[Len(p)].n <= t[Len(p)].n)

\* The content of an article, empty when it has none.
ContentGiven(article) ==
  IF Get(article, "content").t = "str" THEN Get(article, "content").s ELSE <<>>

Aligned(e) ==
  /\ e.ok
  /\ e.val.t = "arr"
  /\ Len(e.val.a) = Len(input.items)
  /\ \A k \in 1..Len(input.items) :
       /\ Get(e.val.a[k], "index") = JNum(k)
       /\ Get(e.val.a[k], "title") = Get(input.items[k], "title")
       /\ Get(e.val.a[k], "content").t = "str"
       /\ IsPrefix(Get(e.val.a[k], "content").s, ContentGiven(input.items[k]))
       /\ Chars(Get(e.val.a[k], "content").s) = Min(Chars(ContentGiven(input.items[k])), 3000)

\* C20: in the prompt of phase 1 the article at position k of the input,
\* counted from 1, stands at position k with index k, and its content there
\* is the beginning of its content, of 3000 characters when the content is
\* longer, whole when it is not, empty when there is none.
C20_PromptArticles ==
  (op = "deep" /\ pc \in {"fetch", "settled"} /\ input.present /\ input.items # <<>>) =>
    Aligned(JSONparse(articlesJson))

Truncated(e) ==
  /\ Chars(ContentGiven(input.items[1])) > 3000
  /\ Chars(Get(e.val.a[1], "content").s) = 3000
  /\ Get(input.items[2], "content").t = "undefined"
  /\ Get(e.val.a[2], "content") = JStr(<<>>)
  /\ Get(e.val.a[2], "index") = JNum(2)

\* The request of phase 1 is in flight for two articles, the first with a
\* content of more than 3000 characters, the second without content.
C20_Witness ==
  /\ op = "deep"
  /\ pc = "fetch"
  /\ Len(input.items) = 2
  /\ Truncated(JSONparse(articlesJson))

\* The key under which the running stage looks for its records.
keyOfStage == IF op = "deep" THEN "summaries" ELSE "insights"

\* The value v is a sequence of records.
isRecords(v) == v.t = "arr" /\ \A k \in 1..Len(v.a) : v.a[k].t = "obj"

\* The outcome that claim C23 gives to the parse result p of the cleaned
\* response: the empty sequence for an object without the key, the
\* malformed-response error for a value that is no object and for a key
\* whose value is no sequence of records.
MissingKeyOrMalformed(p) ==
  LET failed == Thrown(IF op = "deep" THEN DeepAnalysisFailed ELSE InsightsFailed)
      has == \E k \in 1..Len(p.val.o) : p.val.o[k].k = keyOfStage
  IN  p.ok =>
        /\ (p.val.t = "obj" /\ ~has) => outcome = Returned(<<>>)
        /\ p.val.t # "obj" => outcome = failed
        /\ (p.val.t = "obj" /\ has /\ ~isRecords(Get(p.val, keyOfStage))) => outcome = failed

\* C23: a response that parses to an object without the summaries / insights
\* key makes the stage return the empty sequence; a response that parses to a
\* value that is no object, or whose summaries / insights value is no
\* sequence of records, makes the stage throw its malformed-response error.
C23_MissingKeyOrMalformed ==
  (pc = "settled" /\ op \in {"deep", "insights"} /\ answer.status = "returned"
     /\ answer.content.t = "str") =>
    MissingKeyOrMalformed(JSONparse(cleanResponse(answer.content.s)))

\* C24: without a credential, a stage called with an empty list returns the
\* empty sequence and throws nothing, and a stage called with a list that is
\* not empty throws the configuration error, no request having been sent.
C24_EmptyBeforeCredential ==
  (OPENAI_API_KEY = "" /\ pc = "settled" /\ op \in {"deep", "insights"} /\ input.present) =>
    /\ requests = 0
    /\ input.items = <<>> => (outcome = Returned(<<>>) /\ answer = NoAnswer)
    /\ input.items # <<>> => outcome = Thrown(ConfigurationError)

\* Without a credential deepAnalyzeArticles([]) has returned the empty
\* sequence.
C24_Witness ==
  /\ OPENAI_API_KEY = ""
  /\ pc = "settled"
  /\ op = "deep"
  /\ input = Arg(<<>>)
  /\ outcome = Returned(<<>>)

\* The runs of handleAnalysis that are between their start and the end of
\* their analysis.
analyzing == {r \in runs : r.at \in {"search", "ai"}}

\* C21: at most one analysis run of the page is in flight at any time.
C21_OneRunInFlight == Cardinality(analyzing) <= 1

\* C22: when results are shown with insights, the insights are of the run
\* that fetched the articles on display.
C22_InsightsOfDisplayedArticles ==
  (showResult /\ aiInsights # <<>>) =>
    /\ articles # <<>>
    /\ aiInsights[1].run = articles[1].run

====
